---- MODULE Spec2Model ----
(***************************************************************************)
(* A model of pyzgy's SeismicReader (src/pyzgy/read.py): slice reads that  *)
(* go through the chunk loader, the direct sub-volume read, trace headers, *)
(* and the annotation-coordinate axes.                                     *)
(*                                                                         *)
(* The loader (pyzgy/loader.py) and the store (openzgy) are not part of    *)
(* the source tree that is modelled here; they follow the design document: *)
(* a brick cache keyed by brick coordinate with LRU eviction, filled by    *)
(* one wide aligned read, over a store that pads reads near the edges.     *)
(***************************************************************************)
EXTENDS Integers, Sequences, FiniteSets, TLC

VARIABLES size, geom, open, cache, result, held, first, ax, lk

vars == <<size, geom, open, cache, result, held, first, ax, lk>>

---------------------------------------------------------------------------
(* Program constants *)

BRICK_SIZE == 64

HeaderLen == 240

Pad == 0

(* Bounds of the model *)

\* the volume within one brick has 3 inlines and MaxXl crosslines
MaxXl == 2

\* the volume of two brick rows has BRICK_SIZE + ExtraIl inlines and 2 crosslines
ExtraIl == 1

\* the sample axis has 1 .. MaxSamples entries
MaxSamples == 2

\* number of bricks the cache holds
Capacity == 1

\* axes of the coordinate index have 1 .. MaxCount entries
MaxCount == 3

\* annotation starts are drawn from -MaxStart .. MaxStart
MaxStart == 2

---------------------------------------------------------------------------
(* The store: a dense volume, zero-padded outside its extent *)

InVolume(sz, c) ==
    /\ c[1] \in 0..(sz[1] - 1)
    /\ c[2] \in 0..(sz[2] - 1)
    /\ c[3] \in 0..(sz[3] - 1)

\* the sample stored at a cell: distinct for distinct cells of the volume
StoreAt(sz, c) ==
    IF InVolume(sz, c) THEN 1 + c[1] + 1000 * c[2] + 1000000 * c[3] ELSE Pad

\* a ranged read must touch the volume
Overlaps(sz, req) ==
    \A d \in 1..3 : req.origin[d] < sz[d] /\ req.origin[d] + req.shape[d] > 0

StoreStatus(isOpen, sz, req) ==
    IF ~isOpen THEN "ClosedHandle"
    ELSE IF ~Overlaps(sz, req) THEN "UnderlyingStoreFailure"
    ELSE "ok"

---------------------------------------------------------------------------
(* The brick cache behind the loader *)

BrickOf(c) == <<c[1] \div BRICK_SIZE, c[2] \div BRICK_SIZE, c[3] \div BRICK_SIZE>>

BricksOf(req) ==
    { <<bi, bj, bk>> :
        bi \in (req.origin[1] \div BRICK_SIZE)..((req.origin[1] + req.shape[1] - 1) \div BRICK_SIZE),
        bj \in (req.origin[2] \div BRICK_SIZE)..((req.origin[2] + req.shape[2] - 1) \div BRICK_SIZE),
        bk \in (req.origin[3] \div BRICK_SIZE)..((req.origin[3] + req.shape[3] - 1) \div BRICK_SIZE) }

Resident(cch) == { cch[n].key : n \in 1..Len(cch) }

Rank(b) == b[1] * 10000 + b[2] * 100 + b[3]

RECURSIVE InOrder(_)
InOrder(S) ==
    IF S = {} THEN <<>>
    ELSE LET m == CHOOSE x \in S : \A y \in S : Rank(x) <= Rank(y)
         IN <<m>> \o InOrder(S \ {m})

EntryOf(cch, b) == cch[CHOOSE n \in 1..Len(cch) : cch[n].key = b]

Without(cch, b) == SelectSeq(cch, LAMBDA e : e.key # b)

\* what a cached brick holds at a cell: the store's sample unless overwritten
BufAt(cch, sz, c) ==
    LET e == EntryOf(cch, BrickOf(c))
    IN IF c \in DOMAIN e.ov THEN e.ov[c] ELSE StoreAt(sz, c)

RECURSIVE Evict(_)
Evict(cch) == IF Len(cch) > Capacity THEN Evict(Tail(cch)) ELSE cch

\* get_or_load of one brick: refresh recency, or insert the freshly read brick
\* (by: whether an inline query or another one loaded the brick, for the record)
RECURSIVE GetOrLoadAll(_, _, _)
GetOrLoadAll(cch, bricks, axis) ==
    IF bricks = <<>> THEN cch
    ELSE LET b  == Head(bricks)
             e  == IF b \in Resident(cch) THEN EntryOf(cch, b)
                   ELSE [key |-> b, ov |-> <<>>, by |-> IF axis = "inline" THEN axis ELSE "other"]
         IN GetOrLoadAll(Evict(Append(Without(cch, b), e)), Tail(bricks), axis)

\* load_*_chunk: all bricks resident means no store read; otherwise one wide
\* read of the aligned slab, and a failed read leaves the cache as it was
LoadChunk(cch, isOpen, sz, req) ==
    LET need == BricksOf(req)
    IN IF need \subseteq Resident(cch)
       THEN [status |-> "ok", ops |-> <<>>, cache |-> GetOrLoadAll(cch, InOrder(need), req.axis)]
       ELSE IF StoreStatus(isOpen, sz, req) # "ok"
       THEN [status |-> StoreStatus(isOpen, sz, req), ops |-> <<req>>, cache |-> cch]
       ELSE [status |-> "ok", ops |-> <<req>>, cache |-> GetOrLoadAll(cch, InOrder(need), req.axis)]

\* the sample the loaded chunk shows at a cell
ChunkAt(cch, sz, c) ==
    IF BrickOf(c) \in Resident(cch) THEN BufAt(cch, sz, c) ELSE StoreAt(sz, c)

---------------------------------------------------------------------------
(* read.py: chunk requests and the plane each read extracts *)

ChunkOrigin(idx) == BRICK_SIZE * (idx \div BRICK_SIZE)

PlaneIndex(idx) == idx % BRICK_SIZE

InlineSlab(sz, il) ==
    [kind |-> "slab", axis |-> "inline",
     origin |-> <<ChunkOrigin(il), 0, 0>>, shape |-> <<BRICK_SIZE, sz[2], sz[3]>>]

InlineCellsOffByOne(sz, il) ==
    [x \in (0..(sz[2] - 1)) \X (0..(sz[3] - 1)) |->
        <<ChunkOrigin(il) + PlaneIndex(il + 1), x[1], x[2]>>]

InlineCells(sz, il) ==
    [x \in (0..(sz[2] - 1)) \X (0..(sz[3] - 1)) |->
        <<ChunkOrigin(il) + PlaneIndex(il), x[1], x[2]>>]

CrosslineSlab(sz, xl) ==
    [kind |-> "slab", axis |-> "crossline",
     origin |-> <<0, ChunkOrigin(xl), 0>>, shape |-> <<sz[1], BRICK_SIZE, sz[3]>>]

CrosslineCells(sz, xl) ==
    [x \in (0..(sz[1] - 1)) \X (0..(sz[3] - 1)) |->
        <<x[1], ChunkOrigin(xl) + PlaneIndex(xl), x[2]>>]

ZsliceSlab(sz, z) ==
    [kind |-> "slab", axis |-> "zslice",
     origin |-> <<0, 0, ChunkOrigin(z)>>, shape |-> <<sz[1], sz[2], BRICK_SIZE>>]

ZsliceCells(sz, z) ==
    [x \in (0..(sz[1] - 1)) \X (0..(sz[2] - 1)) |->
        <<x[1], x[2], ChunkOrigin(z) + PlaneIndex(z)>>]

TraceIl(sz, index) == index \div sz[2]

TraceXl(sz, index) == index % sz[2]

TraceSlabSwapped(sz, index) ==
    [kind |-> "slab", axis |-> "trace",
     origin |-> <<ChunkOrigin(TraceXl(sz, index)), ChunkOrigin(TraceIl(sz, index)), 0>>,
     shape |-> <<BRICK_SIZE, BRICK_SIZE, sz[3]>>]

TraceSlab(sz, index) ==
    [kind |-> "slab", axis |-> "trace",
     origin |-> <<ChunkOrigin(TraceIl(sz, index)), ChunkOrigin(TraceXl(sz, index)), 0>>,
     shape |-> <<BRICK_SIZE, BRICK_SIZE, sz[3]>>]

TraceCells(sz, index) ==
    [x \in { <<k>> : k \in 0..(sz[3] - 1) } |->
        <<ChunkOrigin(TraceIl(sz, index)) + PlaneIndex(TraceIl(sz, index)),
          ChunkOrigin(TraceXl(sz, index)) + PlaneIndex(TraceXl(sz, index)),
          x[1]>>]

\* numpy basic slicing gives a view on the chunk; .copy() detaches it
NoCopy(view) == view

Copy(view) == [view EXCEPT !.alias = FALSE]

NoData == <<>>

\* x0: the index of the array's first element; at: the volume cell it shows
NoArray == [has |-> FALSE, data |-> <<>>, alias |-> FALSE, x0 |-> <<>>, at |-> <<>>]

NoFirst == [has |-> FALSE, il |-> 0, data |-> <<>>]

\* the bricks a query intersects, from the volume's geometry alone
Touched(sz, op, args) ==
    LET all(n) == 0..((n - 1) \div BRICK_SIZE)
        at(i)  == {i \div BRICK_SIZE}
        bi == IF op = "read_inline" THEN at(args[1])
              ELSE IF op = "get_trace" THEN at(args[1] \div sz[2]) ELSE all(sz[1])
        bj == IF op = "read_crossline" THEN at(args[1])
              ELSE IF op = "get_trace" THEN at(args[1] % sz[2]) ELSE all(sz[2])
        bk == IF op = "read_zslice" THEN at(args[1]) ELSE all(sz[3])
    IN bi \X bj \X bk

\* the record of a call: what it returned, the store reads it issued, and
\* the circumstances it was made in
Outcome(op, args, status, data, ops) ==
    [op |-> op, args |-> args, status |-> status, data |-> data, ops |-> ops,
     resident |-> Touched(size, op, args) \subseteq Resident(cache),
     byInline |-> \A n \in 1..Len(cache) :
                    cache[n].key \in Touched(size, op, args) => cache[n].by = "inline",
     written |-> held.has /\ held.data[held.x0] = -1]

\* the index of an array's first element
ZeroIndex(dom) == CHOOSE x \in dom : \A n \in 1..Len(x) : x[n] = 0

\* load the chunk, take the plane, copy it, hand it to the caller
CachedRead(op, args, req, cells) ==
    LET ld   == LoadChunk(cache, open, size, req)
        cs   == cells
        res  == Resident(cache)
        view == [data  |-> [x \in DOMAIN cs |->
                              IF BrickOf(cs[x]) \in res THEN ChunkAt(cache, size, cs[x])
                              ELSE StoreAt(size, cs[x])],
                 alias |-> TRUE]
        arr  == Copy(view)
        x0   == ZeroIndex(DOMAIN cs)
    IN /\ cache' = ld.cache
       /\ IF ld.status = "ok"
          THEN /\ result' = Outcome(op, args, "ok", arr.data, ld.ops)
               /\ held' = [has |-> TRUE, data |-> arr.data, alias |-> arr.alias,
                           x0 |-> x0, at |-> cs[x0]]
          ELSE \* the call raised: the caller was given no array
               /\ result' = Outcome(op, args, ld.status, NoData, ld.ops)
               /\ held' = NoArray
       /\ first' = IF op = "read_inline" /\ ld.status = "ok" /\ ~first.has
                      /\ args[1] \in 0..(size[1] - 1)
                   THEN [has |-> TRUE, il |-> args[1], data |-> arr.data]
                   ELSE first
       /\ UNCHANGED <<size, geom, open, ax, lk>>

\* the ordinals the caller asks for: both ends of the axis, one before, one
\* past, and the start of the second brick
Ordinals(n) == {-1, 0, n - 1, n}

ReadInline(il) ==
    CachedRead("read_inline", <<il>>, InlineSlab(size, il), InlineCells(size, il))

ReadCrossline(xl) ==
    CachedRead("read_crossline", <<xl>>, CrosslineSlab(size, xl), CrosslineCells(size, xl))

ReadZslice(z) ==
    CachedRead("read_zslice", <<z>>, ZsliceSlab(size, z), ZsliceCells(size, z))

TraceCount(sz) == sz[1] * sz[2]

TraceIndices(sz) ==
    {-1, 0, TraceCount(sz) - 1, TraceCount(sz)}
      \cup (IF BRICK_SIZE < sz[1] THEN {BRICK_SIZE * sz[2]} ELSE {})

GetTrace(index) ==
    IF ~(0 <= index /\ index < size[1] * size[2])
    THEN /\ result' = Outcome("get_trace", <<index>>, "IndexError", NoData, <<>>)
         /\ held' = NoArray
         /\ UNCHANGED <<size, geom, open, cache, first, ax, lk>>
    ELSE CachedRead("get_trace", <<index>>, TraceSlab(size, index), TraceCells(size, index))

---------------------------------------------------------------------------
(* read.py: the direct sub-volume read *)

SubvolumeRequestInclusive(a) ==
    [kind |-> "box", axis |-> "none",
     origin |-> <<a[1], a[3], a[5]>>,
     shape |-> <<a[2] - a[1] + 1, a[4] - a[3] + 1, a[6] - a[5] + 1>>]

SubvolumeRequest(a) ==
    [kind |-> "box", axis |-> "none",
     origin |-> <<a[1], a[3], a[5]>>,
     shape |-> <<a[2] - a[1], a[4] - a[3], a[6] - a[5]>>]

\* what the store puts in the zero-filled buffer
BoxData(sz, req) ==
    [x \in (0..(req.shape[1] - 1)) \X (0..(req.shape[2] - 1)) \X (0..(req.shape[3] - 1)) |->
        StoreAt(sz, <<req.origin[1] + x[1], req.origin[2] + x[2], req.origin[3] + x[3]>>)]

Subvolume(op, a) ==
    LET req == SubvolumeRequest(a)
        st  == StoreStatus(open, size, req)
    IN /\ IF st = "ok"
          THEN /\ result' = Outcome(op, a, "ok", BoxData(size, req), <<req>>)
               /\ held' = [has |-> TRUE, data |-> BoxData(size, req), alias |-> FALSE,
                           x0 |-> <<0, 0, 0>>, at |-> req.origin]
          ELSE /\ result' = Outcome(op, a, st, NoData, <<req>>)
               /\ held' = NoArray
       /\ UNCHANGED <<size, geom, open, cache, first, ax, lk>>

\* single inlines, an inner box, and a box that overhangs the crossline axis
SubvolumeArgs(sz) ==
    { <<i, i + 1, 0, sz[2], 0, sz[3]>> : i \in {0, sz[1] - 1} }
      \cup { <<1, 2, 1, 2, 0, 1>>, <<0, 2, 0, sz[2] + 1, 0, sz[3]>> }

ReadSubvolume(a) == Subvolume("read_subvolume", a)

ReadVolume == Subvolume("read_volume", <<0, size[1], 0, size[2], 0, size[3]>>)

---------------------------------------------------------------------------
(* read.py: close, and the caller writing into an array it was given *)

\* close() closes the file handle, and nothing else
Close ==
    /\ open' = FALSE
    /\ result' = Outcome("close", <<>>, "ok", NoData, <<>>)
    /\ UNCHANGED <<size, geom, cache, held, first, ax, lk>>

\* the caller overwrites the first element of the array its last call returned;
\* a view shares its memory with the cached brick, a copy does not
CallerWrites ==
    /\ held.has
    /\ LET x == held.x0
           c == held.at
       IN /\ held.data[x] # -1
          /\ held' = [held EXCEPT !.data[x] = -1]
          /\ cache' = IF held.alias /\ BrickOf(c) \in Resident(cache)
                      THEN [n \in 1..Len(cache) |->
                              IF cache[n].key = BrickOf(c)
                              THEN [cache[n] EXCEPT !.ov = (c :> -1) @@ cache[n].ov]
                              ELSE cache[n]]
                      ELSE cache
    /\ UNCHANGED <<size, geom, open, result, first, ax, lk>>

---------------------------------------------------------------------------
(* read.py: cartesian coordinates and the synthesized trace header *)

EastingIncIl(g, sz) == (g.corners[2][1] - g.corners[1][1]) \div (sz[1] - 1)

NorthingIncIl(g, sz) == (g.corners[2][2] - g.corners[1][2]) \div (sz[1] - 1)

EastingIncXl(g, sz) == (g.corners[3][1] - g.corners[1][1]) \div (sz[2] - 1)

NorthingIncXl(g, sz) == (g.corners[3][2] - g.corners[1][2]) \div (sz[2] - 1)

gen_cdp_x(g, sz, il, xl) ==
    g.corners[1][1] + il * EastingIncIl(g, sz) + xl * EastingIncXl(g, sz)

gen_cdp_y(g, sz, il, xl) ==
    g.corners[1][2] + il * NorthingIncIl(g, sz) + xl * NorthingIncXl(g, sz)

RECURSIVE Pow256(_)
Pow256(n) == IF n = 0 THEN 1 ELSE 256 * Pow256(n - 1)

\* struct.pack(">h" / ">H" / ">i", v): big-endian, two's complement, or an
\* error when v does not fit
MaxSigned(n) == 127 * Pow256(n - 1) + (Pow256(n - 1) - 1)

MaxUnsigned(n) == 255 * Pow256(n - 1) + (Pow256(n - 1) - 1)

Fits(v, n, signed) ==
    IF signed THEN -MaxSigned(n) - 1 <= v /\ v <= MaxSigned(n)
    ELSE 0 <= v /\ v <= MaxUnsigned(n)

\* byte b of the n-byte big-endian form (floor division sign-extends)
Pack(v, n) == [b \in 1..n |-> (v \div Pow256(n - b)) % 256]

\* header[lo:lo+len(bytes)] = bytes
SetSlice(h, lo, bytes) ==
    SubSeq(h, 1, lo) \o bytes \o SubSeq(h, lo + Len(bytes) + 1, Len(h))

\* (xl_coord, il_coord) of a trace index
HeaderCoordsSwapped(sz, index) == <<index \div sz[2], index % sz[2]>>

HeaderCoords(sz, index) == <<index % sz[2], index \div sz[2]>>

HeaderFields(g, sz, index) ==
    LET xl_coord == HeaderCoords(sz, index)[1]
        il_coord == HeaderCoords(sz, index)[2]
    IN [cdp_x        |-> 100 * gen_cdp_x(g, sz, il_coord, xl_coord),
        cdp_y        |-> 100 * gen_cdp_y(g, sz, il_coord, xl_coord),
        inline_3d    |-> g.annotstart[1] + il_coord * g.annotinc[1],
        crossline_3d |-> g.annotstart[2] + xl_coord * g.annotinc[2],
        scalar       |-> -100,
        count        |-> sz[3],
        interval     |-> g.zinc * 1000]

HeaderFits(f) ==
    /\ Fits(f.scalar, 2, TRUE)
    /\ Fits(f.cdp_x, 4, TRUE)
    /\ Fits(f.cdp_y, 4, TRUE)
    /\ Fits(f.inline_3d, 4, TRUE)
    /\ Fits(f.crossline_3d, 4, TRUE)
    /\ Fits(f.count, 2, FALSE)
    /\ Fits(f.interval, 2, FALSE)

HeaderBytes(f) ==
    LET h0 == [b \in 1..HeaderLen |-> 0]
        h1 == SetSlice(h0, 70, Pack(f.scalar, 2))
        h2 == SetSlice(h1, 180, Pack(f.cdp_x, 4))
        h3 == SetSlice(h2, 184, Pack(f.cdp_y, 4))
        h4 == SetSlice(h3, 188, Pack(f.inline_3d, 4))
        h5 == SetSlice(h4, 192, Pack(f.crossline_3d, 4))
        h6 == SetSlice(h5, 114, Pack(f.count, 2))
    IN SetSlice(h6, 116, Pack(f.interval, 2))

\* the range check formats self.range_error, which the class never sets
GenTraceHeader(index) ==
    /\ result' =
         IF ~(0 <= index /\ index < size[1] * size[2])
         THEN Outcome("gen_trace_header", <<index>>, "AttributeError", NoData, <<>>)
         ELSE IF ~HeaderFits(HeaderFields(geom, size, index))
         THEN Outcome("gen_trace_header", <<index>>, "struct.error", NoData, <<>>)
         ELSE Outcome("gen_trace_header", <<index>>, "ok",
                      HeaderBytes(HeaderFields(geom, size, index)), <<>>)
    /\ UNCHANGED <<size, geom, open, cache, held, first, ax, lk>>

---------------------------------------------------------------------------
(* read.py: annotation axes and the coordinate lookup *)

CeilDiv(a, b) == -((-a) \div b)

\* numpy.arange(start, stop, step) over integers
Arange(start, stop, step) ==
    LET n == IF step > 0 THEN CeilDiv(stop - start, step)
             ELSE CeilDiv(start - stop, -step)
    IN [i \in 1..(IF n > 0 THEN n ELSE 0) |-> start + (i - 1) * step]

get_haxis(start, count, inc) == Arange(start, start + count * inc, inc)

Found(i) == [kind |-> "index", value |-> i]

Raised(what) == [kind |-> what, value |-> -1]

coord_to_index_one_based(coord, coords, include_stop) ==
    IF \E n \in 1..Len(coords) : coords[n] = coord
    THEN Found(CHOOSE n \in 1..Len(coords) :
                 /\ coords[n] = coord
                 /\ \A m \in 1..(n - 1) : coords[m] # coord)
    ELSE Raised("CoordinateNotFound")

\* ordinals count from 0; coords[-1] and coords[-2] need one and two entries
coord_to_index(coord, coords, include_stop) ==
    IF \E n \in 1..Len(coords) : coords[n] = coord
    THEN Found((CHOOSE n \in 1..Len(coords) :
                 /\ coords[n] = coord
                 /\ \A m \in 1..(n - 1) : coords[m] # coord) - 1)
    ELSE IF ~include_stop THEN Raised("CoordinateNotFound")
    ELSE IF Len(coords) < 2 THEN Raised("IndexError: index out of bounds")
    ELSE IF coord = coords[Len(coords)] + (coords[Len(coords)] - coords[Len(coords) - 1])
    THEN Found(Len(coords))
    ELSE Raised("CoordinateNotFound")

NoLookup == [asked |-> FALSE, coord |-> 0, include_stop |-> FALSE, out |-> Raised("none")]

LookupCoords == (-MaxStart - 2 * (MaxCount + 1))..(MaxStart + 2 * (MaxCount + 1))

Lookup(coord, include_stop) ==
    /\ lk' = [asked |-> TRUE, coord |-> coord, include_stop |-> include_stop,
              out |-> coord_to_index(coord, ax.coords, include_stop)]
    /\ UNCHANGED <<size, geom, open, cache, result, held, first, ax>>

---------------------------------------------------------------------------
(* The reader after construction, and its operations *)

\* the constructor divides by size - 1 on both horizontal axes
SampleSizes == 1..MaxSamples

Sizes ==
    { <<3, MaxXl, n>> : n \in SampleSizes } \cup { <<BRICK_SIZE + ExtraIl, 2, n>> : n \in SampleSizes }

Corners(origin, incIl, incXl, sz) ==
    <<origin,
      <<origin[1] + (sz[1] - 1) * incIl[1], origin[2] + (sz[1] - 1) * incIl[2]>>,
      <<origin[1] + (sz[2] - 1) * incXl[1], origin[2] + (sz[2] - 1) * incXl[2]>>>>

Geometry(annotstart, annotinc, zinc, origin, incIl, incXl, sz) ==
    [annotstart |-> annotstart, annotinc |-> annotinc, zinc |-> zinc,
     corners |-> Corners(origin, incIl, incXl, sz)]

Axis(start, inc, count) ==
    [start |-> start, inc |-> inc, count |-> count, coords |-> get_haxis(start, count, inc)]

NoResult ==
    [op |-> "none", args |-> <<>>, status |-> "none", data |-> NoData, ops |-> <<>>,
     resident |-> FALSE, byInline |-> FALSE, written |-> FALSE]

InitReader ==
    /\ open = TRUE
    /\ cache = <<>>
    /\ result = NoResult
    /\ held = NoArray
    /\ first = NoFirst
    /\ lk = NoLookup

Init ==
    /\ size \in Sizes
    /\ geom = Geometry(<<100, 10>>, <<2, 1>>, 4, <<1000, 2000>>, <<1, 0>>, <<0, 1>>, size)
    /\ ax = Axis(geom.annotstart[1], geom.annotinc[1], size[1])
    /\ InitReader

Next ==
    \/ \E il \in Ordinals(size[1]) \cup {BRICK_SIZE} : ReadInline(il)
    \/ \E xl \in Ordinals(size[2]) : ReadCrossline(xl)
    \/ \E z \in Ordinals(size[3]) : ReadZslice(z)
    \/ \E index \in TraceIndices(size) : GetTrace(index)
    \/ \E a \in SubvolumeArgs(size) : ReadSubvolume(a)
    \/ ReadVolume
    \/ CallerWrites
    \/ Close

Spec == Init /\ [][Next]_vars

(* Headers over a range of geometries *)

InitHeader ==
    /\ size \in {2, 3} \X (2..MaxXl) \X SampleSizes
    /\ \E annotstart \in {<<100, 10>>, <<-3, 70000>>},
          annotinc \in {<<2, 1>>, <<1, -1>>},
          zinc \in {2, 4},
          origin \in {<<1000, 2000>>, <<-5, 0>>},
          incs \in {<<<<1, 0>>, <<0, 1>>>>, <<<<2, -1>>, <<1, 3>>>>} :
          geom = Geometry(annotstart, annotinc, zinc, origin, incs[1], incs[2], size)
    /\ ax = Axis(geom.annotstart[1], geom.annotinc[1], size[1])
    /\ InitReader

NextHeader ==
    \/ \E index \in TraceIndices(size) : GenTraceHeader(index)
    \/ \E index \in TraceIndices(size) : GetTrace(index)
    \/ Close

SpecHeader == InitHeader /\ [][NextHeader]_vars

(* The coordinate index over a range of axes *)

AxisIncs == {-2, -1, 1, 2}

InitAxis ==
    /\ size = <<2, 2, 1>>
    /\ geom = Geometry(<<100, 10>>, <<2, 1>>, 4, <<1000, 2000>>, <<1, 0>>, <<0, 1>>, size)
    /\ \E start \in (-MaxStart)..MaxStart, inc \in AxisIncs, count \in 1..MaxCount :
          ax = Axis(start, inc, count)
    /\ InitReader

NextAxis == \E coord \in LookupCoords, include_stop \in BOOLEAN : Lookup(coord, include_stop)

SpecAxis == InitAxis /\ [][NextAxis]_vars

---------------------------------------------------------------------------
(* Properties *)

ValidOrdinal(r) ==
    \/ r.op = "read_inline" /\ r.args[1] \in 0..(size[1] - 1)
    \/ r.op = "read_crossline" /\ r.args[1] \in 0..(size[2] - 1)
    \/ r.op = "read_zslice" /\ r.args[1] \in 0..(size[3] - 1)

ValidTraceIndex(r) ==
    /\ r.op \in {"get_trace", "gen_trace_header"}
    /\ r.args[1] \in 0..(size[1] * size[2] - 1)

ValidBox(r) ==
    /\ r.op \in {"read_subvolume", "read_volume"}
    /\ 0 <= r.args[1] /\ r.args[1] < r.args[2] /\ r.args[2] <= size[1]
    /\ 0 <= r.args[3] /\ r.args[3] < r.args[4] /\ r.args[4] <= size[2]
    /\ 0 <= r.args[5] /\ r.args[5] < r.args[6] /\ r.args[6] <= size[3]

\* C1: for a valid inline ordinal i, read_inline(i) returns an array of shape
\* (n_xlines, n_samples) whose value at every (j, k) is the value at (0, j, k)
\* of the direct read read_subvolume(i, i+1, 0, n_xlines, 0, n_samples).
C1_InlineAgreesWithSubvolume ==
    (result.op = "read_inline" /\ result.status = "ok" /\ ValidOrdinal(result)) =>
        LET i      == result.args[1]
            direct == BoxData(size, SubvolumeRequest(<<i, i + 1, 0, size[2], 0, size[3]>>))
        IN /\ DOMAIN result.data = (0..(size[2] - 1)) \X (0..(size[3] - 1))
           /\ DOMAIN direct = {0} \X (0..(size[2] - 1)) \X (0..(size[3] - 1))
           /\ \A x \in DOMAIN result.data : result.data[x] = direct[<<0, x[1], x[2]>>]

\* an inline of the second brick row has been read from an open reader
C1_Witness ==
    /\ result.op = "read_inline" /\ result.status = "ok"
    /\ result.args[1] = BRICK_SIZE /\ ValidOrdinal(result)
    /\ open

\* C2: read_inline, read_crossline and read_zslice with an ordinal outside
\* [0, dimension) fail with IndexOutOfRange and return no data.
C2_OutOfRangeOrdinalFails ==
    (result.op \in {"read_inline", "read_crossline", "read_zslice"} /\ ~ValidOrdinal(result)) =>
        (result.status = "IndexOutOfRange" /\ result.data = NoData)

\* C3: get_trace and gen_trace_header with an index outside
\* [0, n_ilines * n_xlines) fail with IndexError and return nothing.
C3_OutOfRangeTraceIndexFails ==
    (result.op \in {"get_trace", "gen_trace_header"} /\ ~ValidTraceIndex(result)) =>
        (result.status = "IndexError" /\ result.data = NoData)

\* C4: every read issued after close() fails with ClosedHandle, whatever was
\* read before the close (stated for reads whose arguments are in range).
C4_ReadAfterCloseFails ==
    (~open /\ (ValidOrdinal(result) \/ ValidBox(result)
                         \/ (result.op = "get_trace" /\ ValidTraceIndex(result)))) =>
        result.status = "ClosedHandle"

\* C5: the axis get_haxis builds from (start, increment, count) has exactly
\* count entries, entry i being start + i*increment, and coord_to_index of
\* entry i is i.
C5_AxisRoundTrip ==
    /\ Len(ax.coords) = ax.count
    /\ \A i \in 0..(ax.count - 1) : ax.coords[i + 1] = ax.start + i * ax.inc
    /\ \A i \in 0..(ax.count - 1) :
         (lk.asked /\ lk.coord = ax.start + i * ax.inc) => lk.out = [kind |-> "index", value |-> i]

\* the last entry of a descending axis of several entries has been looked up
C5_Witness ==
    /\ lk.asked /\ ax.count > 1 /\ ax.inc < 0
    /\ lk.coord = ax.start + (ax.count - 1) * ax.inc
    /\ lk.out.kind = "index"

\* C6: for a coordinate absent from the axis, coord_to_index returns count
\* when include_stop is set and the coordinate is last + increment, and in
\* every other case fails with CoordinateNotFound, whatever the axis length.
C6_AbsentCoordinate ==
    (lk.asked /\ \A i \in 0..(ax.count - 1) : lk.coord # ax.start + i * ax.inc) =>
        IF lk.include_stop /\ lk.coord = ax.start + ax.count * ax.inc
        THEN lk.out = [kind |-> "index", value |-> ax.count]
        ELSE lk.out.kind = "CoordinateNotFound"

Declared == (71..72) \cup (115..118) \cup (181..196)

\* the signed value of four big-endian bytes
Decode4(b) ==
    (IF b[1] >= 128 THEN b[1] - 256 ELSE b[1]) * 16777216 + b[2] * 65536 + b[3] * 256 + b[4]

\* C7: for a valid trace index gen_trace_header gives exactly 240 bytes, zero
\* outside the declared fields, with the annotation numbers of
\* (index // n_xlines, index % n_xlines) in the inline and crossline fields.
C7_HeaderLayout ==
    (result.op = "gen_trace_header" /\ ValidTraceIndex(result)) =>
        /\ result.status = "ok"
        /\ Len(result.data) = 240
        /\ \A b \in 1..Len(result.data) : b \notin Declared => result.data[b] = 0
        /\ Decode4(SubSeq(result.data, 189, 192))
             = geom.annotstart[1] + (result.args[1] \div size[2]) * geom.annotinc[1]
        /\ Decode4(SubSeq(result.data, 193, 196))
             = geom.annotstart[2] + (result.args[1] % size[2]) * geom.annotinc[2]

\* a header of a trace off the first inline and off the first crossline, with
\* a negative inline number
C7_Witness ==
    /\ result.op = "gen_trace_header" /\ result.status = "ok"
    /\ result.args[1] \div size[2] > 0 /\ result.args[1] % size[2] > 0
    /\ geom.annotstart[1] < 0

\* C8: a later read_inline(i) returns what the first read_inline(i) returned,
\* cold or warm, whatever was read in between and whatever the caller wrote
\* into the arrays it was given.
C8_InlineReadsRepeat ==
    (first.has /\ result.op = "read_inline" /\ result.status = "ok"
       /\ result.args[1] = first.il) =>
        result.data = first.data

\* the inline is read again, warm, after the caller wrote into the array of
\* the read before
C8_Witness ==
    /\ first.has /\ result.op = "read_inline" /\ result.status = "ok"
    /\ result.args[1] = first.il
    /\ result.ops = <<>>
    /\ result.written

\* C9: a read_crossline, read_zslice or get_trace that intersects only bricks
\* already in the cache is served from it, with no read against the store.
C9_ResidentBricksServeAnyAxis ==
    (result.op \in {"read_crossline", "read_zslice", "get_trace"}
       /\ (ValidOrdinal(result) \/ ValidTraceIndex(result))
       /\ result.resident) =>
        (result.status = "ok" /\ result.ops = <<>>)

\* a trace of the second brick row is served from a brick an inline read loaded
C9_Witness ==
    /\ result.op = "get_trace" /\ result.status = "ok" /\ result.ops = <<>>
    /\ result.args[1] \div size[2] >= BRICK_SIZE
    /\ result.resident /\ result.byInline

\* C10: read_subvolume and read_volume leave the cache as it is and issue one
\* ranged read at (min_il, min_xl, min_z) of shape
\* (max_il - min_il, max_xl - min_xl, max_z - min_z); read_volume asks for
\* the full bounds.
C10_SubvolumeBypassesCache ==
    [][(result' # result /\ result'.op \in {"read_subvolume", "read_volume"}) =>
         LET a == result'.args
         IN /\ cache' = cache
            /\ result'.ops = << [kind |-> "box", axis |-> "none",
                                 origin |-> <<a[1], a[3], a[5]>>,
                                 shape |-> <<a[2] - a[1], a[4] - a[3], a[6] - a[5]>>] >>
            /\ result'.op = "read_volume" => a = <<0, size[1], 0, size[2], 0, size[3]>>]_vars

\* a sub-volume has been read while the cache held a brick
C10_Witness ==
    /\ result.op = "read_subvolume" /\ result.status = "ok"
    /\ cache # <<>>

====
